---- MODULE Spec2Model ----
(***************************************************************************)
(* A model of ZODB's DB object (src/.../ZODB/DB.py): the per-version       *)
(* connection pools (_ConnectionPool) and the DB methods open,             *)
(* _closeConnection, setPoolSize / setVersionPoolSize / _reset_pool_sizes, *)
(* removeVersionPool, invalidate and modifiedInVersion, called by          *)
(* application threads; the creation of the root object in DB.__init__;    *)
(* and the resource managers (CommitVersion, AbortVersion,                 *)
(* TransactionalUndo) a transaction drives.  The storage is known by the   *)
(* calls the DB makes on it.                                               *)
(*                                                                         *)
(* Granularity.  A method that takes the DB lock (self._a / self._r) is    *)
(* up to three steps: the acquisition, the body, and the release with the  *)
(* return.  Only a thread that holds the lock changes a pool, and open     *)
(* fetches its pool in the first step, so nothing another thread does      *)
(* between these steps is lost (but for the loop over DB._pools at the end *)
(* of open, see OpenBody).  The methods that take no lock                  *)
(* (invalidate, removeVersionPool, the tunable assignment of setPoolSize)  *)
(* interleave with everything; invalidate takes one step per pool.         *)
(*                                                                         *)
(* Python's assert statements are modelled as raising AssertionError (the  *)
(* interpreter's default mode).                                            *)
(*                                                                         *)
(* Objects.  A WeakSet holds a connection as long as something else        *)
(* references it.  The application refers to the connections it has open   *)
(* and may still refer to one it closed while a pool keeps it; a pool      *)
(* refers to the connections in its `available` list; a pool is referred   *)
(* to by DB._pools and by the threads in the middle of a call.  Whatever   *)
(* is referred to by none of these is gone, and its identity is reused.    *)
(***************************************************************************)
EXTENDS Integers, Sequences, FiniteSets, TLC

\* ------------------------------------------------------------------ bounds
MaxConns == 3      \* Connection objects alive at a time
MaxPools == 1      \* _ConnectionPool objects alive at a time, per version
MaxPoolSize == 3   \* largest pool size the application sets
NumThreads == 2    \* application threads
MaxTid == 1        \* transaction ids passed to invalidate, and
                   \* transactions the resource managers take part in

\* --------------------------------------------------------------- constants
None == 0
MivBuckets == 131

Versions == {"", "v"}
Threads == 1..NumThreads
Conns == 1..MaxConns
Sizes == 1..MaxPoolSize
Tids == 1..MaxTid
Oids == {1, 2, 132}
OidSets == {{1}, {1, 132}}

\* The identities a pool made for a version can take.
VersionIndex(v) == IF v = "" THEN 0 ELSE 1
PoolsOf(v) == {VersionIndex(v) * MaxPools + k : k \in 1..MaxPools}
PoolIds == UNION {PoolsOf(v) : v \in Versions}

VARIABLES
  pools,              \* DB._pools: version -> pool object (None: no entry)
  heap,               \* the _ConnectionPool objects, by identity
  conn,               \* the Connection objects: _version and _db
  pool_size,          \* DB._pool_size
  version_pool_size,  \* DB._version_pool_size
  miv_cache,          \* DB._miv_cache: bucket -> <<oid, version>>
  lock,               \* holder of the DB lock (None: free)
  pc,                 \* each thread's position
  local,              \* each thread's arguments, locals and return value
  checkedOut,         \* per connection: callers that got it from open and
                      \* have not called close on it
  closed,             \* per version: its idle connections in the order in
                      \* which they were closed
  orphaned,           \* the open connections whose pool removeVersionPool
                      \* took out of DB._pools
  storage             \* DB._storage: whether it holds the root object,
                      \* and where its transaction is

vars == <<pools, heap, conn, pool_size, version_pool_size, miv_cache, lock,
          pc, local, checkedOut, closed, orphaned, storage>>

\* ----------------------------------------------------------------- helpers
Range(s) == {s[i] : i \in 1..Len(s)}

Min(S) == CHOOSE x \in S : \A y \in S : x <= y

Last(s) == s[Len(s)]

Without(s, c) == LET keep(x) == x # c IN SelectSeq(s, keep)

Within(s, S) == LET keep(x) == x \in S IN SelectSeq(s, keep)

\* A _ConnectionPool as __init__ leaves it.
NewPool(size) == [pool_size |-> size, all |-> {}, available |-> <<>>]

\* The slot of a pool, or of a connection, that does not exist.
NoPoolObj == NewPool(0)
NoConnObj == [version |-> "", db |-> "free"]

NoGot == [c \in Conns |-> <<>>]

\* An empty _miv_cache dict.
EmptyMiv == [h \in {} |-> <<>>]

Blank == [version |-> "", pool |-> None, conn |-> None,
          size |-> 0, for_versions |-> FALSE, tid |-> 0, oids |-> {},
          todo |-> {}, got |-> NoGot,
          result |-> None, outcome |-> "", log |-> "", before |-> 0,
          raced |-> FALSE, oid |-> 0, answer |-> "", calls |-> <<>>,
          rm |-> "", source |-> "", dest |-> "", pass |-> 0, sub |-> FALSE,
          stale |-> FALSE]

\* The object id of the root object, line 226.
RootOid == 0

\* A storage that holds the root object and has no transaction open.
NoTxn == [root |-> TRUE, txn |-> "none", tid |-> 0, aborted |-> {}]

\* ------------------------------------------------------- _ConnectionPool
\* Variant of _reduce_size that throws nothing away.
noReduce(pool) == pool

\* Variant of _reduce_size that throws the newest idle connections away.
RECURSIVE reduceNewest(_)
reduceNewest(pool) ==
  IF pool.available # <<>> /\ Cardinality(pool.all) >= pool.pool_size
  THEN reduceNewest([pool EXCEPT
                       !.available = SubSeq(@, 1, Len(@) - 1),
                       !.all = @ \ {pool.available[Len(pool.available)]}])
  ELSE pool

RECURSIVE _reduce_size(_)
_reduce_size(pool) ==
  IF pool.available # <<>> /\ Cardinality(pool.all) >= pool.pool_size
  THEN _reduce_size([pool EXCEPT !.available = Tail(@),
                                 !.all = @ \ {Head(pool.available)}])
  ELSE pool

set_pool_size(pool, size) ==
  [_reduce_size([pool EXCEPT !.pool_size = size + 1])
     EXCEPT !.pool_size = size]

\* push's two asserts hold of the fresh connection open passes.
push(pool, c) ==
  LET r == _reduce_size(pool)
  IN  [r EXCEPT !.all = @ \cup {c}, !.available = Append(@, c)]

\* Variant of pushLog that logs nothing.
pushLogQuiet(pool) == "none"

\* The message push logs.
pushLog(pool) ==
  LET n == Cardinality(pool.all)
      limit == pool.pool_size
  IN  IF n > limit
      THEN IF n > 2 * limit THEN "critical" ELSE "warn"
      ELSE "none"

\* Variant of repush's asserts that lets every connection through.
noAsserts(pool, c) == TRUE

repushAsserts(pool, c) == c \in pool.all /\ c \notin Range(pool.available)

\* Variant of repush that puts the connection at the bottom of the stack.
repushFront(pool, c) ==
  LET r == _reduce_size(pool)
  IN  [r EXCEPT !.available = <<c>> \o @]

repush(pool, c) ==
  LET r == _reduce_size(pool)
  IN  [r EXCEPT !.available = Append(@, c)]

\* Variant of pop that leaves the connection in `available`.
popKeep(pool) == pool

\* The connection pop returns, and the pool it leaves.
popResult(pool) == pool.available[Len(pool.available)]

pop(pool) ==
  [pool EXCEPT !.available = SubSeq(@, 1, Len(@) - 1)]

popAssert(pool) == popResult(pool) \in pool.all

\* ------------------------------------------------------------------- Init
\* DB.__init__, lines 200-218: no pools, the two pool sizes, the lock free.
Init ==
  /\ pools = [v \in Versions |-> None]
  /\ heap = [p \in PoolIds |-> NoPoolObj]
  /\ conn = [c \in Conns |-> NoConnObj]
  /\ pool_size = MaxPoolSize
  /\ version_pool_size = MaxPoolSize
  /\ miv_cache = EmptyMiv
  /\ lock = None
  /\ pc = [t \in Threads |-> "idle"]
  /\ local = [t \in Threads |-> Blank]
  /\ checkedOut = [c \in Conns |-> 0]
  /\ closed = [v \in Versions |-> <<>>]
  /\ orphaned = {}
  /\ storage = NoTxn

\* ------------------------------------------------------ objects, references
\* The pools something refers to: DB._pools, and the threads inside a call.
Reachable(pl, loc) ==
  ({pl[v] : v \in Versions}
     \cup {loc[t].pool : t \in Threads}
     \cup UNION {loc[t].todo : t \in Threads}) \ {None}

\* The connections something refers to: the application (those it has open,
\* those a thread passed to a call or is being returned), and the pools'
\* `available` lists.
Alive(pl, hp, cn, loc) ==
  {c \in Conns : cn[c].db = "self"}
    \cup ({loc[t].conn : t \in Threads} \ {None})
    \cup ({loc[t].result : t \in Threads} \ {None})
    \cup UNION {Range(hp[p].available) : p \in Reachable(pl, loc)}

\* What is left of the pools and connections once the unreferenced ones are
\* gone: a WeakSet loses its dead members, a dead pool its `available`.
\* (reach and alive are the pools and the connections still referred to.)
sweepHeap(reach, alive, hp) ==
  [p \in PoolIds |->
     IF p \in reach THEN [hp[p] EXCEPT !.all = @ \cap alive] ELSE NoPoolObj]

sweepConn(alive, cn) ==
  [c \in Conns |-> IF c \in alive THEN cn[c] ELSE NoConnObj]

\* The open connections tracked by a pool that is not, or no longer, in
\* DB._pools as `pl`.
Unregistered(pl, hp, cn) ==
  {c \in Conns :
     /\ cn[c].db = "self"
     /\ \E p \in PoolIds \ {pl[v] : v \in Versions} : c \in hp[p].all}

\* What a thread still knows of the deliveries it made: those to
\* connections that are gone are forgotten with them.
sweepLocal(alive, loc) ==
  [t \in Threads |->
     [loc[t] EXCEPT !.got = [c \in Conns |->
                               IF c \in alive THEN loc[t].got[c] ELSE <<>>]]]

\* The step's effect on the objects: hp, cn, co, cl, loc and st are the
\* pools, the connections, the callers' holds, the close order, the
\* threads' locals and the storage as the code leaves them.
SettleWith(hp, cn, co, cl, loc, st) ==
  LET reach == Reachable(pools', loc)
      alive == Alive(pools', hp, cn, loc)
      idle == UNION {Range(hp[p].available) : p \in reach}
  IN  /\ heap' = sweepHeap(reach, alive, hp)
      /\ conn' = sweepConn(alive, cn)
      /\ local' = sweepLocal(alive, loc)
      /\ checkedOut' = [c \in Conns |-> IF c \in alive THEN co[c] ELSE 0]
      /\ closed' = [v \in Versions |-> Within(cl[v], idle)]
      /\ orphaned' = (orphaned \cup Unregistered(pools', hp, cn)) \cap alive
      /\ storage' = st

\* The same for a step that leaves the storage alone.
Settle(hp, cn, co, cl, loc) == SettleWith(hp, cn, co, cl, loc, storage)

\* A step that leaves the objects alone and the locals as `loc`.
Same(loc) == Settle(heap, conn, checkedOut, closed, loc)

\* Identities a call in progress has recorded.
Mentioned == {local[t].result : t \in Threads}

FreeConns == {c \in Conns : conn[c].db = "free" /\ c \notin Mentioned}

FreePools(v) ==
  {p \in PoolsOf(v) : p \notin Reachable(pools, local)}

\* The live connections: those the application has open and those idle in
\* a registered pool.
Live ==
  {c \in Conns : conn[c].db = "self"}
    \cup UNION {Range(heap[pools[v]].available) :
                  v \in {w \in Versions : pools[w] # None}}

\* Variant of forwardTo that confines an invalidation of version '' to the
\* connections of version ''.
forwardSameVersion(cn, cc, connection, version) ==
  cc # connection /\ cn[cc].version = version

\* The test invalidate applies to a tracked connection cc, lines 456-457.
forwardTo(cn, cc, connection, version) ==
  cc # connection /\ (version = "" \/ cn[cc].version = version)

\* ------------------------------------------------------------------ lock
\* Variant of _r for a release that is not in a finally clause: the lock
\* stays with the thread when the body raised.
releaseUnlessRaised(holder, outcome) ==
  IF outcome \in {"AssertionError", "RuntimeError", "raised"}
  THEN holder ELSE None

\* The holder of the lock after the finally clauses of lines 280-281,
\* 290-291, 545-546 and 639-640 (self._r()), whatever the body's outcome.
_r(holder, outcome) == None

\* ------------------------------------------------------------------ open
\* DB.open, lines 513-522: take the lock, fetch or create the version's
\* pool.  The thread comes from position `from`.
openAcquire(t, version, from) ==
  LET existing == pools[version]
      size == IF version # "" THEN version_pool_size ELSE pool_size
      p == IF existing = None THEN Min(FreePools(version)) ELSE existing
      hp == IF existing = None
            THEN [heap EXCEPT ![p] = NewPool(size)] ELSE heap
  IN  /\ pc[t] = from
      /\ lock = None
      /\ existing = None => FreePools(version) # {}
      /\ (existing = None \/ heap[p].available = <<>>) => FreeConns # {}
      /\ lock' = t
      /\ pools' = [pools EXCEPT ![version] = p]
      /\ pc' = [pc EXCEPT ![t] = "open"]
      /\ UNCHANGED <<pool_size, version_pool_size, miv_cache>>
      /\ Settle(hp, conn, checkedOut, closed,
                [local EXCEPT ![t] =
                   [Blank EXCEPT !.version = version, !.pool = p]])

\* DB.open called and the lock taken at once.
OpenAcquire(t, version) == openAcquire(t, version, "idle")

\* Variant of _setDB that leaves the connection unbound.
setDBNot(cn, c) == cn

\* Connection._setDB as far as the DB is concerned: the connection's _db.
setDB(cn, c) == [cn EXCEPT ![c].db = "self"]

\* DB.open, lines 524-543: create and push a connection if none is
\* available, pop, bind, and loop over self._pools.itervalues() for the
\* cacheGC calls.  A removeVersionPool of another thread that changes the
\* dict's size during the loop makes the loop raise RuntimeError, or not:
\* `raise` is the outcome.  The connection popped is then returned to
\* nobody: it is gone, unless another thread refers to it.
OpenBody(t) ==
  \E raise \in IF local[t].raced THEN BOOLEAN ELSE {FALSE} :
    LET p == local[t].pool
        version == local[t].version
        create == Len(heap[p].available) = 0
        c == Min(FreeConns)
        pushed == IF create THEN push(heap[p], c) ELSE heap[p]
        cn1 == IF create
               THEN [conn EXCEPT ![c] = [version |-> version, db |-> "none"]]
               ELSE conn
        result == popResult(pushed)
        ok == popAssert(pushed)
        returned == ok /\ ~raise
    IN  /\ pc[t] = "open"
        /\ pc' = [pc EXCEPT ![t] = "open_r"]
        /\ UNCHANGED <<pools, pool_size, version_pool_size, miv_cache, lock>>
        /\ Settle([heap EXCEPT ![p] = pop(pushed)],
                  IF returned THEN setDB(cn1, result)
                  ELSE IF ok /\ \E u \in Threads \ {t} : local[u].conn = result
                  THEN setDB(cn1, result)
                  ELSE IF ok THEN [cn1 EXCEPT ![result] = NoConnObj]
                  ELSE cn1,
                  IF returned THEN [checkedOut EXCEPT ![result] = @ + 1]
                  ELSE checkedOut,
                  [closed EXCEPT ![version] = Without(@, result)],
                  [local EXCEPT ![t] =
                     [Blank EXCEPT
                        !.version = version,
                        !.result = IF returned THEN result ELSE None,
                        !.outcome =
                          IF ~ok THEN "AssertionError"
                          ELSE IF raise THEN "RuntimeError"
                          ELSE IF create THEN "created" ELSE "reused",
                        !.log = IF create THEN pushLog(pushed) ELSE "none",
                        !.before = Len(heap[p].available)]])

\* DB.open, lines 543-546: release the lock and return.
OpenRelease(t) ==
  /\ pc[t] = "open_r"
  /\ lock' = _r(lock, local[t].outcome)
  /\ pc' = [pc EXCEPT ![t] = "idle"]
  /\ UNCHANGED <<pools, pool_size, version_pool_size, miv_cache>>
  /\ Same([local EXCEPT ![t] = Blank])

\* ------------------------------------------------------- _closeConnection
\* The application calls close on a connection it refers to;
\* _closeConnection, line 258: take the lock.  The thread comes from
\* position `from`.
closeAcquire(t, c, from) ==
  /\ pc[t] = from
  /\ lock = None
  /\ conn[c].db # "free"
  /\ lock' = t
  /\ pc' = [pc EXCEPT ![t] = "close"]
  /\ UNCHANGED <<pools, pool_size, version_pool_size, miv_cache>>
  /\ Settle(heap, conn,
            [checkedOut EXCEPT ![c] = IF @ > 0 THEN @ - 1 ELSE 0], closed,
            [local EXCEPT ![t] = [Blank EXCEPT !.conn = c]])

\* _closeConnection called and the lock taken at once.
CloseAcquire(t, c) == closeAcquire(t, c, "idle")

\* What _closeConnection does with connection c, lines 260-278:
\*   "AssertionError" (line 260, or repush's asserts, lines 99-100),
\*   "discarded" (lines 270-277) or "repushed" (line 278).
closeOutcome(c) ==
  LET pool == pools[conn[c].version]
  IN  IF conn[c].db # "self" THEN "AssertionError"
      ELSE IF pool = None THEN "discarded"
      ELSE IF ~repushAsserts(heap[pool], c) THEN "AssertionError"
      ELSE "repushed"

\* Variant of unsetDB in which _closeConnection leaves connection._db alone.
unsetDBNot(cn, c, outcome) == cn

\* _closeConnection, line 261 (connection._db = None, reached only when the
\* assert of line 260 passed) and line 276 (connection.__dict__.clear()).
unsetDB(cn, c, outcome) ==
  IF cn[c].db # "self" THEN cn
  ELSE [cn EXCEPT ![c].db = IF outcome = "discarded" THEN "cleared" ELSE "none"]

\* _closeConnection, lines 259-278.
CloseBody(t) ==
  LET c == local[t].conn
      version == conn[c].version
      outcome == closeOutcome(c)
      pool == pools[version]
  IN  /\ pc[t] = "close"
      /\ pc' = [pc EXCEPT ![t] = "close_r"]
      /\ UNCHANGED <<pools, pool_size, version_pool_size, miv_cache, lock>>
      /\ Settle(IF outcome = "repushed"
                THEN [heap EXCEPT ![pool] = repush(@, c)] ELSE heap,
                unsetDB(conn, c, outcome),
                checkedOut,
                IF outcome = "repushed"
                THEN [closed EXCEPT ![version] = Append(@, c)] ELSE closed,
                [local EXCEPT ![t] =
                   [Blank EXCEPT
                      !.conn = c, !.version = version, !.outcome = outcome,
                      !.before = IF pool = None THEN 0
                                 ELSE Len(heap[pool].available)]])

\* _closeConnection, lines 280-281: release the lock and return.
CloseRelease(t) ==
  /\ pc[t] = "close_r"
  /\ lock' = _r(lock, local[t].outcome)
  /\ pc' = [pc EXCEPT ![t] = "idle"]
  /\ UNCHANGED <<pools, pool_size, version_pool_size, miv_cache>>
  /\ Same([local EXCEPT ![t] = Blank])

\* ------------------------------------------------------------ pool sizes
\* DB.setPoolSize, line 625: the tunable, then the call of _reset_pool_sizes.
setPoolSize(t, size) ==
  /\ pc[t] = "idle"
  /\ pool_size' = size
  /\ pc' = [pc EXCEPT ![t] = "reset_wait"]
  /\ UNCHANGED <<pools, version_pool_size, miv_cache, lock>>
  /\ Same([local EXCEPT ![t] =
             [Blank EXCEPT !.size = size, !.for_versions = FALSE]])

\* DB.setVersionPoolSize, line 629.
setVersionPoolSize(t, size) ==
  /\ pc[t] = "idle"
  /\ version_pool_size' = size
  /\ pc' = [pc EXCEPT ![t] = "reset_wait"]
  /\ UNCHANGED <<pools, pool_size, miv_cache, lock>>
  /\ Same([local EXCEPT ![t] =
             [Blank EXCEPT !.size = size, !.for_versions = TRUE]])

\* _reset_pool_sizes, line 633: take the lock.
ResetAcquire(t) ==
  /\ pc[t] = "reset_wait"
  /\ lock = None
  /\ lock' = t
  /\ pc' = [pc EXCEPT ![t] = "reset"]
  /\ UNCHANGED <<pools, pool_size, version_pool_size, miv_cache>>
  /\ Same(local)

\* DB.getPoolSize, line 424.
getPoolSize == pool_size

\* DB.getVersionPoolSize, line 433.
getVersionPoolSize == version_pool_size

\* Variant of resetTargets that resizes the pools of every version.
resetAll(for_versions) ==
  {pools[v] : v \in {w \in Versions : pools[w] # None}}

\* The pools _reset_pool_sizes resizes, lines 635-636.
resetTargets(for_versions) ==
  {pools[v] : v \in {w \in Versions :
                       pools[w] # None /\ ((w # "") = for_versions)}}

\* _reset_pool_sizes, lines 634-640, with the release of the lock.
ResetBody(t) ==
  /\ pc[t] = "reset"
  /\ lock' = _r(lock, "")
  /\ pc' = [pc EXCEPT ![t] = "idle"]
  /\ UNCHANGED <<pools, pool_size, version_pool_size, miv_cache>>
  /\ Settle([p \in PoolIds |->
               IF p \in resetTargets(local[t].for_versions)
               THEN set_pool_size(heap[p], local[t].size)
               ELSE heap[p]],
            conn, checkedOut, closed,
            [local EXCEPT ![t] = Blank])

\* ------------------------------------------------------ removeVersionPool
\* DB.removeVersionPool, lines 548-552: no lock is taken.  A thread inside
\* open sees the dict change size when an entry goes.
removeVersionPool(t, version) ==
  /\ pc[t] = "idle"
  /\ pools' = [pools EXCEPT ![version] = None]
  /\ UNCHANGED <<pool_size, version_pool_size, miv_cache, lock, pc>>
  /\ Same([u \in Threads |->
             IF pc[u] = "open" /\ pools[version] # None
             THEN [local[u] EXCEPT !.raced = TRUE] ELSE local[u]])

\* ------------------------------------------------------ garbage collection
\* A thread of the application drops, without closing it, a connection the
\* application has open: the connection vanishes from every WeakSet.
Collect(t, c) ==
  /\ pc[t] = "idle"
  /\ conn[c].db = "self"
  /\ \A u \in Threads : local[u].conn # c /\ local[u].result # c
  /\ UNCHANGED <<pools, pool_size, version_pool_size, miv_cache, lock, pc>>
  /\ Settle(heap, [conn EXCEPT ![c] = NoConnObj], checkedOut, closed, local)

\* ------------------------------------------------------------ invalidate
\* Python's hash of the object id.
Hash(oid) == oid

\* Variant of mivInvalidate that empties the bucket of each given oid,
\* whatever oid the bucket holds.
mivInvalidateBucket(cache, oids) ==
  [h \in DOMAIN cache \ {Hash(oid) % MivBuckets : oid \in oids} |-> cache[h]]

\* DB.invalidate, lines 447-451: the entries of the given oids leave the
\* modified-in-version cache.
mivInvalidate(cache, oids) ==
  LET hit == {h \in DOMAIN cache :
                \E oid \in oids :
                  h = Hash(oid) % MivBuckets /\ cache[h][1] = oid}
  IN  [h \in DOMAIN cache \ hit |-> cache[h]]

\* Variant of the version override that ignores the origin connection.
argumentVersion(connection, version) == version

\* DB.invalidate, lines 444-445: the version the call is confined to.
effectiveVersion(connection, version) ==
  IF connection # None THEN conn[connection].version ELSE version

\* DB.invalidate, lines 444-454: the version, the cache entries, and the
\* list of pools (self._pools.values()) the loop will visit.
InvalidateBegin(t, tid, oids, connection, version) ==
  /\ pc[t] = "idle"
  /\ connection # None => conn[connection].db = "self"
  /\ miv_cache' = mivInvalidate(miv_cache, oids)
  /\ pc' = [pc EXCEPT ![t] = "inv"]
  /\ UNCHANGED <<pools, pool_size, version_pool_size, lock>>
  /\ Same([local EXCEPT ![t] =
             [Blank EXCEPT
                !.tid = tid, !.oids = oids, !.conn = connection,
                !.version = effectiveVersion(connection, version),
                !.todo = {pools[v] : v \in Versions} \ {None}]])

\* The deliveries of DB.invalidate's loop for one pool, lines 455-458: the
\* connections of pool.all_as_list() that pass the test are sent
\* (tid, oids).
deliver(l, pool) ==
  [c \in Conns |->
     IF c \in pool.all /\ forwardTo(conn, c, l.conn, l.version)
     THEN Append(l.got[c], <<l.tid, l.oids>>)
     ELSE l.got[c]]

\* DB.invalidate, lines 455-458, for one pool of the list.
InvalidateFanOut(t, p) ==
  /\ pc[t] = "inv"
  /\ p \in local[t].todo
  /\ UNCHANGED <<pools, pool_size, version_pool_size, miv_cache, lock, pc>>
  /\ Same([local EXCEPT ![t] =
             [local[t] EXCEPT !.todo = @ \ {p},
                              !.got = deliver(local[t], heap[p])]])

\* DB.invalidate returns once the list is exhausted.
InvalidateReturn(t) ==
  /\ pc[t] = "inv"
  /\ local[t].todo = {}
  /\ local[t].rm = ""
  /\ pc' = [pc EXCEPT ![t] = "idle"]
  /\ UNCHANGED <<pools, pool_size, version_pool_size, miv_cache, lock>>
  /\ Same([local EXCEPT ![t] = Blank])

\* ------------------------------------------------ calls that wait for the lock
\* DB.open called by thread t: the thread is at self._a(), line 513.  (The
\* call is made when a connection is left for it should it need a new
\* one.)
OpenCall(t, version) ==
  /\ pc[t] = "idle"
  /\ Cardinality(FreeConns) >
       Cardinality({u \in Threads \ {t} : pc[u] \in {"open_wait", "open"}})
  /\ pc' = [pc EXCEPT ![t] = "open_wait"]
  /\ UNCHANGED <<pools, pool_size, version_pool_size, miv_cache, lock>>
  /\ Same([local EXCEPT ![t] = [Blank EXCEPT !.version = version]])

\* self._a() of line 513 returns.
OpenGranted(t) == openAcquire(t, local[t].version, "open_wait")

\* _closeConnection called by thread t: the thread is at self._a(), line 258.
CloseCall(t, c) ==
  /\ pc[t] = "idle"
  /\ conn[c].db # "free"
  /\ pc' = [pc EXCEPT ![t] = "close_wait"]
  /\ UNCHANGED <<pools, pool_size, version_pool_size, miv_cache, lock>>
  /\ Same([local EXCEPT ![t] = [Blank EXCEPT !.conn = c]])

\* self._a() of line 258 returns.
CloseGranted(t) == closeAcquire(t, local[t].conn, "close_wait")

\* _connectionMap, line 285: take the lock.
MapAcquire(t) ==
  /\ pc[t] = "idle"
  /\ lock = None
  /\ lock' = t
  /\ pc' = [pc EXCEPT ![t] = "map"]
  /\ UNCHANGED <<pools, pool_size, version_pool_size, miv_cache>>
  /\ Same([local EXCEPT ![t] = Blank])

\* _connectionMap, lines 286-289: f(c) for the connections of the pools;
\* f can raise, and so can the iteration over DB._pools.
MapBody(t, raised) ==
  /\ pc[t] = "map"
  /\ pc' = [pc EXCEPT ![t] = "map_r"]
  /\ UNCHANGED <<pools, pool_size, version_pool_size, miv_cache, lock>>
  /\ Same([local EXCEPT ![t].outcome = IF raised THEN "raised" ELSE "mapped"])

\* _connectionMap, lines 290-291: release the lock and return.
MapRelease(t) ==
  /\ pc[t] = "map_r"
  /\ lock' = _r(lock, local[t].outcome)
  /\ pc' = [pc EXCEPT ![t] = "idle"]
  /\ UNCHANGED <<pools, pool_size, version_pool_size, miv_cache>>
  /\ Same([local EXCEPT ![t] = Blank])

\* --------------------------------------------------------- ResourceManager
\* A CommitVersion, AbortVersion or TransactionalUndo that DB.commitVersion,
\* DB.abortVersion or DB.undo registered with a transaction, and the calls
\* the transaction manager makes on it from thread t.  The storage gives
\* the transaction its id when it begins.

\* Variant of invalidatesOn in which tpc_abort invalidates as commit does.
invalidatesOnAbort(method) == method \in {"commit", "tpc_abort"}

\* The methods of the resource managers that call DB.invalidate: commit
\* (lines 723-733, 741-745, 753-755); tpc_vote, tpc_finish and tpc_abort are
\* the storage's own methods (lines 694-696).
invalidatesOn(method) == method = "commit"

\* The version argument of the k-th invalidate call of commit: the
\* destination and then the source for CommitVersion (lines 729-733), the
\* version for AbortVersion (line 745), none for TransactionalUndo (line 755).
commitVersionArg(l, k) ==
  IF l.rm = "CommitVersion" THEN (IF k = 1 THEN l.dest ELSE l.source)
  ELSE IF l.rm = "AbortVersion" THEN l.source
  ELSE ""

\* The number of invalidate calls commit makes, lines 729-733.
commitCalls(l) == IF l.rm = "CommitVersion" /\ l.dest # "" THEN 2 ELSE 1

\* Thread t enters the k-th invalidate call of its resource manager with
\* the locals l: lines 444-454 as in InvalidateBegin.
rmInvalidate(t, l, k, st) ==
  /\ miv_cache' = mivInvalidate(miv_cache, l.oids)
  /\ pc' = [pc EXCEPT ![t] = "inv"]
  /\ UNCHANGED <<pools, pool_size, version_pool_size, lock>>
  /\ SettleWith(heap, conn, checkedOut, closed,
                [local EXCEPT ![t] =
                   [l EXCEPT
                      !.pass = k,
                      !.version = effectiveVersion(None, commitVersionArg(l, k)),
                      !.todo = {pools[v] : v \in Versions} \ {None}]],
                st)

\* Variant of subRaises that lets a sub-transaction through.
subIgnored(sub) == FALSE

\* ResourceManager.tpc_begin, lines 703-704: if sub: raise ValueError.
subRaises(sub) == sub

\* ResourceManager.tpc_begin, lines 701-705: ValueError for a
\* sub-transaction, the storage's tpc_begin otherwise.
RMBegin(t, rm, source, dest, sub) ==
  LET l == [Blank EXCEPT !.rm = rm, !.source = source, !.dest = dest,
                         !.sub = sub]
  IN  /\ pc[t] = "idle"
      /\ storage.txn = "none"
      /\ storage.tid < MaxTid
      /\ pc' = [pc EXCEPT ![t] = IF subRaises(sub) THEN "txn_r" ELSE "txn"]
      /\ UNCHANGED <<pools, pool_size, version_pool_size, miv_cache, lock>>
      /\ IF subRaises(sub)
         THEN Same([local EXCEPT ![t] = [l EXCEPT !.outcome = "ValueError"]])
         ELSE SettleWith(heap, conn, checkedOut, closed,
                         [local EXCEPT ![t] =
                            [l EXCEPT !.tid = storage.tid + 1,
                                      !.calls = << <<"tpc_begin">> >>,
                                      !.outcome = "begun"]],
                         [storage EXCEPT !.txn = "begun", !.tid = @ + 1])

\* commit, lines 723-729, 741-745 and 753-755: the storage does the work
\* and names the oids, and the first invalidate call begins.
RMCommit(t, oids) ==
  /\ pc[t] = "txn" /\ local[t].outcome = "begun"
  /\ invalidatesOn("commit")
  /\ rmInvalidate(t, [local[t] EXCEPT !.oids = oids], 1,
                  [storage EXCEPT !.txn = "stored"])

\* commit, lines 730-733: an invalidate call of commit returns: the next
\* one begins, or commit returns.
RMInvalidated(t) ==
  /\ pc[t] = "inv" /\ local[t].todo = {}
  /\ local[t].rm # ""
  /\ IF local[t].outcome = "begun" /\ local[t].pass < commitCalls(local[t])
     THEN rmInvalidate(t, local[t], local[t].pass + 1, storage)
     ELSE /\ pc' = [pc EXCEPT ![t] =
                      IF local[t].outcome = "begun" THEN "txn" ELSE "txn_r"]
          /\ UNCHANGED <<pools, pool_size, version_pool_size, miv_cache,
                         lock>>
          /\ Same([local EXCEPT ![t].outcome =
                     IF @ = "begun" THEN "committed" ELSE @])

\* tpc_vote, line 694: the storage's.  It can raise, and the transaction
\* manager can then only abort.
RMVote(t, raised) ==
  /\ pc[t] = "txn" /\ local[t].outcome = "committed"
  /\ UNCHANGED <<pools, pool_size, version_pool_size, miv_cache, lock, pc>>
  /\ SettleWith(heap, conn, checkedOut, closed,
                [local EXCEPT ![t].outcome =
                   IF raised THEN "vote_raised" ELSE "voted"],
                IF raised THEN storage ELSE [storage EXCEPT !.txn = "voted"])

\* tpc_finish, line 695: the storage's.
RMFinish(t) ==
  /\ pc[t] = "txn" /\ local[t].outcome = "voted"
  /\ pc' = [pc EXCEPT ![t] = "txn_r"]
  /\ UNCHANGED <<pools, pool_size, version_pool_size, miv_cache, lock>>
  /\ SettleWith(heap, conn, checkedOut, closed,
                [local EXCEPT ![t].outcome = "finished"],
                [storage EXCEPT !.txn = "none"])

\* tpc_abort, line 696: the storage's, at any point after tpc_begin.
RMAbort(t) ==
  LET st == [storage EXCEPT !.txn = "none",
                            !.aborted = @ \cup {local[t].tid}]
      l == [local[t] EXCEPT !.outcome = "aborted"]
  IN  /\ pc[t] = "txn"
      /\ IF invalidatesOn("tpc_abort")
         THEN rmInvalidate(t, [l EXCEPT !.oids = Oids], 1, st)
         ELSE /\ pc' = [pc EXCEPT ![t] = "txn_r"]
              /\ UNCHANGED <<pools, pool_size, version_pool_size, miv_cache,
                             lock>>
              /\ SettleWith(heap, conn, checkedOut, closed,
                            [local EXCEPT ![t] = l], st)

\* The transaction is over for the resource manager.
RMReturn(t) ==
  /\ pc[t] = "txn_r"
  /\ pc' = [pc EXCEPT ![t] = "idle"]
  /\ UNCHANGED <<pools, pool_size, version_pool_size, miv_cache, lock>>
  /\ Same([local EXCEPT ![t] = Blank])

\* ------------------------------------------------------------- DB.__init__
\* The construction of the DB by thread t: the fields are those of Init
\* (lines 200-218); what follows are the calls of lines 220-242 on the
\* storage.  Any of the calls can raise; an exception leaves __init__ at
\* once, since no try statement other than that of line 225 surrounds them.

\* Variant of bootNext that finishes without voting.
bootNextNoVote(position) ==
  CASE position = "boot_begin" -> "boot_store"
    [] position = "boot_store" -> "boot_finish"
    [] position = "boot_vote" -> "boot_finish"
    [] position = "boot_finish" -> "boot_r"

\* Lines 237-242: the order of the calls that create the root object.
bootNext(position) ==
  CASE position = "boot_begin" -> "boot_store"
    [] position = "boot_store" -> "boot_vote"
    [] position = "boot_vote" -> "boot_finish"
    [] position = "boot_finish" -> "boot_r"

\* A storage the DB has not been built on yet: it holds a root object or
\* it does not, and no transaction is open.
InitBoot ==
  /\ pools = [v \in Versions |-> None]
  /\ heap = [p \in PoolIds |-> NoPoolObj]
  /\ conn = [c \in Conns |-> NoConnObj]
  /\ pool_size = MaxPoolSize
  /\ version_pool_size = MaxPoolSize
  /\ miv_cache = EmptyMiv
  /\ lock = None
  /\ pc = [t \in Threads |-> IF t = 1 THEN "new" ELSE "idle"]
  /\ local = [t \in Threads |-> Blank]
  /\ checkedOut = [c \in Conns |-> 0]
  /\ closed = [v \in Versions |-> <<>>]
  /\ orphaned = {}
  /\ \E root \in BOOLEAN : storage = [NoTxn EXCEPT !.root = root]

\* Thread t, at `from`, has made call `call` on the storage, which is st
\* now; the thread goes on at `to` (past the except clause of line 227 when
\* that is the creation of the root), or leaves __init__ with the exception.
booted(t, from, call, raised, st, to) ==
  /\ pc[t] = from
  /\ pc' = [pc EXCEPT ![t] = IF raised THEN "boot_failed" ELSE to]
  /\ UNCHANGED <<pools, pool_size, version_pool_size, miv_cache, lock>>
  /\ SettleWith(heap, conn, checkedOut, closed,
                [local EXCEPT ![t].calls = Append(@, call),
                              ![t].outcome =
                                IF raised THEN "raised"
                                ELSE IF to = "boot_begin" THEN "KeyError"
                                ELSE @],
                IF raised THEN storage ELSE st)

\* Lines 225-227: storage.load of the root object.  It returns, raises
\* KeyError (no root object), or raises something else.
BootLoad(t, raised) ==
  booted(t, "new", <<"load", RootOid, "">>, raised, storage,
         IF storage.root THEN "boot_r" ELSE "boot_begin")

\* Line 237: storage.tpc_begin(t).
BootBegin(t, raised) ==
  booted(t, "boot_begin", <<"tpc_begin">>, raised,
         [storage EXCEPT !.txn = "begun"], bootNext("boot_begin"))

\* Line 238: storage.store of the root object, in version ''.
BootStore(t, raised) ==
  booted(t, "boot_store", <<"store", RootOid, "">>, raised,
         [storage EXCEPT !.txn = "stored"], bootNext("boot_store"))

\* Line 240: storage.tpc_vote(t).
BootVote(t, raised) ==
  booted(t, "boot_vote", <<"tpc_vote">>, raised,
         [storage EXCEPT !.txn = "voted"], bootNext("boot_vote"))

\* Line 241: storage.tpc_finish(t): what was stored is committed.
BootFinish(t, raised) ==
  booted(t, "boot_finish", <<"tpc_finish">>, raised,
         [storage EXCEPT !.root = @ \/ storage.txn \in {"stored", "voted"},
                         !.txn = "none"],
         bootNext("boot_finish"))

\* __init__ returns: the DB is in use from here on.
BootReturn(t) ==
  /\ pc[t] = "boot_r"
  /\ pc' = [pc EXCEPT ![t] = "idle"]
  /\ UNCHANGED <<pools, pool_size, version_pool_size, miv_cache, lock>>
  /\ Same([local EXCEPT ![t] = Blank])

BootCall(t) ==
  \/ \E raised \in BOOLEAN : BootLoad(t, raised)
  \/ \E raised \in BOOLEAN : BootBegin(t, raised)
  \/ \E raised \in BOOLEAN : BootStore(t, raised)
  \/ \E raised \in BOOLEAN : BootVote(t, raised)
  \/ \E raised \in BOOLEAN : BootFinish(t, raised)
  \/ BootReturn(t)

\* -------------------------------------------------------- modifiedInVersion
\* Variant of mivHit that takes whatever the bucket holds.
mivHitBucket(cache, oid) == Hash(oid) % MivBuckets \in DOMAIN cache

\* modifiedInVersion, lines 462-465: the bucket of the oid holds an entry,
\* and the entry is the oid's.
mivHit(cache, oid) ==
  LET h == Hash(oid) % MivBuckets
  IN  h \in DOMAIN cache /\ cache[h][1] = oid

\* modifiedInVersion, line 467: cache[h] = oid, v.
mivPut(cache, oid, v) ==
  LET h == Hash(oid) % MivBuckets
  IN  [k \in DOMAIN cache \cup {h} |->
         IF k = h THEN <<oid, v>> ELSE cache[k]]

\* modifiedInVersion, lines 462-465: look the oid up in the cache and return
\* the version found there, or go on to ask the storage.  No lock is taken.
MivLookup(t, oid) ==
  LET hit == mivHit(miv_cache, oid)
  IN  /\ pc[t] = "idle"
      /\ pc' = [pc EXCEPT ![t] = IF hit THEN "miv_r" ELSE "miv_q"]
      /\ UNCHANGED <<pools, pool_size, version_pool_size, miv_cache, lock>>
      /\ Same([local EXCEPT ![t] =
                 [Blank EXCEPT
                    !.oid = oid,
                    !.outcome = IF hit THEN "cached" ELSE "",
                    !.answer = IF hit
                               THEN miv_cache[Hash(oid) % MivBuckets][2]
                               ELSE ""]])

\* modifiedInVersion, line 466: the storage answers with version v.
MivQuery(t, v) ==
  /\ pc[t] = "miv_q"
  /\ pc' = [pc EXCEPT ![t] = "miv_s"]
  /\ UNCHANGED <<pools, pool_size, version_pool_size, miv_cache, lock>>
  /\ Same([local EXCEPT ![t].answer = v])

\* modifiedInVersion, lines 467-468: the answer goes into the oid's bucket.
MivStore(t) ==
  /\ pc[t] = "miv_s"
  /\ miv_cache' = mivPut(miv_cache, local[t].oid, local[t].answer)
  /\ pc' = [pc EXCEPT ![t] = "miv_r"]
  /\ UNCHANGED <<pools, pool_size, version_pool_size, lock>>
  /\ Same([local EXCEPT ![t].outcome = "stored"])

\* modifiedInVersion returns.
MivReturn(t) ==
  /\ pc[t] = "miv_r"
  /\ pc' = [pc EXCEPT ![t] = "idle"]
  /\ UNCHANGED <<pools, pool_size, version_pool_size, miv_cache, lock>>
  /\ Same([local EXCEPT ![t] = Blank])

\* ------------------------------------------ a change made at the storage
\* A transaction of thread t has changed the versions of the given oids at
\* the storage, and thread t is about to tell the DB (CommitVersion.commit,
\* line 728, before line 732).  What the storage answered before about
\* these oids is out of date: a thread that holds such an answer, lines
\* 466-467, holds a stale one.
StorageChanged(t, tid, oids) ==
  /\ pc[t] = "idle"
  /\ pc' = [pc EXCEPT ![t] = "changed"]
  /\ UNCHANGED <<pools, pool_size, version_pool_size, miv_cache, lock>>
  /\ Same([u \in Threads |->
             IF u = t THEN [Blank EXCEPT !.tid = tid, !.oids = oids]
             ELSE IF pc[u] = "miv_s" /\ local[u].oid \in oids
             THEN [local[u] EXCEPT !.stale = TRUE]
             ELSE local[u]])

\* DB.invalidate, lines 444-454, called for the change: as InvalidateBegin,
\* with no origin connection and version ''.
InvalidateChanged(t) ==
  /\ pc[t] = "changed"
  /\ miv_cache' = mivInvalidate(miv_cache, local[t].oids)
  /\ pc' = [pc EXCEPT ![t] = "inv"]
  /\ UNCHANGED <<pools, pool_size, version_pool_size, lock>>
  /\ Same([local EXCEPT ![t] =
             [local[t] EXCEPT
                !.version = effectiveVersion(None, ""),
                !.todo = {pools[v] : v \in Versions} \ {None}]])

\* --------------------------------------------- _ConnectionPool on its own
\* A _ConnectionPool driven through its methods by one caller, as DB.open,
\* DB._closeConnection and DB._reset_pool_sizes drive it, but in any order
\* the methods allow.  The connections the caller holds are those of `all`
\* that are not in `available`.
ThePool == Min(PoolIds)

\* _ConnectionPool.__init__, lines 62-75, for any pool_size.
InitPool ==
  /\ pools = [v \in Versions |-> None]
  /\ \E size \in Sizes :
       heap = [p \in PoolIds |->
                 IF p = ThePool THEN NewPool(size) ELSE NoPoolObj]
  /\ conn = [c \in Conns |-> NoConnObj]
  /\ pool_size = MaxPoolSize
  /\ version_pool_size = MaxPoolSize
  /\ miv_cache = EmptyMiv
  /\ lock = None
  /\ pc = [t \in Threads |-> "idle"]
  /\ local = [t \in Threads |-> Blank]
  /\ checkedOut = [c \in Conns |-> 0]
  /\ closed = [v \in Versions |-> <<>>]
  /\ orphaned = {}
  /\ storage = NoTxn

\* A method of the pool has run on connection c: the pool is q now.
poolCalled(q, c, outcome, log) ==
  /\ pc[1] = "idle"
  /\ heap' = [heap EXCEPT ![ThePool] = q]
  /\ pc' = [pc EXCEPT ![1] = "pool_r"]
  /\ local' = [local EXCEPT ![1] =
                 [Blank EXCEPT !.conn = c, !.outcome = outcome, !.log = log,
                               !.before = Len(heap[ThePool].available)]]
  /\ UNCHANGED <<pools, conn, pool_size, version_pool_size, miv_cache, lock,
                 checkedOut, closed, orphaned, storage>>

\* _ConnectionPool.push, lines 83-95.
PoolPush(c) ==
  IF c \in heap[ThePool].all
  THEN poolCalled(heap[ThePool], c, "AssertionError", "")
  ELSE poolCalled(push(heap[ThePool], c), c, "pushed",
                  pushLog(push(heap[ThePool], c)))

\* _ConnectionPool.repush, lines 98-102.
PoolRepush(c) ==
  IF repushAsserts(heap[ThePool], c)
  THEN poolCalled(repush(heap[ThePool], c), c, "repushed", "")
  ELSE poolCalled(heap[ThePool], c, "AssertionError", "")

\* _ConnectionPool.pop, lines 119-124, called as its comment requires.
PoolPop ==
  /\ heap[ThePool].available # <<>>
  /\ poolCalled(pop(heap[ThePool]), popResult(heap[ThePool]), "popped", "")

\* _ConnectionPool.set_pool_size, lines 77-80.
PoolSetSize(size) ==
  poolCalled(set_pool_size(heap[ThePool], size), None, "resized", "")

\* The caller drops a connection it holds: the WeakSet of line 69 loses it.
PoolForget(c) ==
  /\ c \in heap[ThePool].all \ Range(heap[ThePool].available)
  /\ poolCalled([heap[ThePool] EXCEPT !.all = @ \ {c}], c, "forgotten", "")

\* The method returns.
PoolReturn ==
  /\ pc[1] = "pool_r"
  /\ pc' = [pc EXCEPT ![1] = "idle"]
  /\ local' = [local EXCEPT ![1] = Blank]
  /\ UNCHANGED <<pools, heap, conn, pool_size, version_pool_size, miv_cache,
                 lock, checkedOut, closed, orphaned, storage>>

PoolObjNext ==
  \/ \E c \in Conns : PoolPush(c)
  \/ \E c \in Conns : PoolRepush(c)
  \/ PoolPop
  \/ \E size \in Sizes : PoolSetSize(size)
  \/ \E c \in Conns : PoolForget(c)
  \/ PoolReturn

SpecPool == InitPool /\ [][PoolObjNext]_vars

\* ------------------------------------------------------------------ Spec
\* What one application thread does with the connections and the pools.
PoolCall(t) ==
  \/ \E version \in Versions : OpenAcquire(t, version)
  \/ OpenBody(t)
  \/ OpenRelease(t)
  \/ \E c \in Conns : CloseAcquire(t, c)
  \/ CloseBody(t)
  \/ CloseRelease(t)
  \/ \E version \in Versions : removeVersionPool(t, version)
  \/ \E c \in Conns : Collect(t, c)

\* The pool size changes of one application thread.
SizeCall(t) ==
  \/ \E size \in Sizes : setPoolSize(t, size)
  \/ \E size \in Sizes : setVersionPoolSize(t, size)
  \/ ResetAcquire(t)
  \/ ResetBody(t)

\* The invalidate calls of one application thread.
InvalidateCall(t) ==
  \/ \E tid \in Tids, oids \in OidSets, c \in Conns \cup {None},
        version \in Versions : InvalidateBegin(t, tid, oids, c, version)
  \/ \E p \in PoolIds : InvalidateFanOut(t, p)
  \/ InvalidateReturn(t)

\* The invalidate calls a thread makes on behalf of no connection.
BroadcastCall(t) ==
  \/ \E tid \in Tids, version \in Versions :
        InvalidateBegin(t, tid, Oids, None, version)
  \/ \E p \in PoolIds : InvalidateFanOut(t, p)
  \/ InvalidateReturn(t)

\* One thread opens and closes connections and manages the pools: every
\* call runs to its end before the next begins.
PoolNext == PoolCall(1) \/ SizeCall(1)

Spec == Init /\ [][PoolNext]_vars

\* One thread calls the DB, invalidate included.
InvNext == PoolCall(1) \/ SizeCall(1) \/ InvalidateCall(1)

SpecInv == Init /\ [][InvNext]_vars

\* Several threads open and close connections and remove pools
\* concurrently.
Next == \E t \in Threads : PoolCall(t)

SpecThreads == Init /\ [][Next]_vars

\* Thread 1 calls invalidate while the other threads open and close
\* connections and remove pools.
RaceNext == BroadcastCall(1) \/ \E t \in Threads \ {1} : PoolCall(t)

SpecRace == Init /\ [][RaceNext]_vars

\* The modified-in-version cache of a database nobody has opened: the
\* lookups of one thread and the invalidations that reach the database.
MivNext ==
  \/ \E oid \in Oids : MivLookup(1, oid)
  \/ \E v \in Versions : MivQuery(1, v)
  \/ MivStore(1)
  \/ MivReturn(1)
  \/ \E tid \in Tids, oids \in OidSets, version \in Versions :
       InvalidateBegin(1, tid, oids, None, version)
  \/ InvalidateReturn(1)

SpecMiv == Init /\ [][MivNext]_vars

\* Thread 1 builds the DB on a storage and then opens and closes
\* connections.
BootNext == BootCall(1) \/ PoolCall(1)

SpecBoot == InitBoot /\ [][BootNext]_vars

\* What the transaction manager does with a resource manager of the DB.
TxnCall(t) ==
  \/ \E source \in Versions \ {""}, dest \in Versions, sub \in BOOLEAN :
       RMBegin(t, "CommitVersion", source, dest, sub)
  \/ \E source \in Versions \ {""}, sub \in BOOLEAN :
       RMBegin(t, "AbortVersion", source, "", sub)
  \/ \E sub \in BOOLEAN : RMBegin(t, "TransactionalUndo", "", "", sub)
  \/ \E oids \in OidSets : RMCommit(t, oids)
  \/ \E p \in PoolIds : InvalidateFanOut(t, p)
  \/ RMInvalidated(t)
  \/ \E raised \in BOOLEAN : RMVote(t, raised)
  \/ RMFinish(t)
  \/ RMAbort(t)
  \/ RMReturn(t)

\* Thread 1 opens and closes connections, removes pools, and commits or
\* aborts versions and undoes transactions.
TxnNext == PoolCall(1) \/ TxnCall(1)

SpecTxn == Init /\ [][TxnNext]_vars

\* Thread 1 calls modifiedInVersion while thread 2 changes objects at the
\* storage and invalidates them; nobody has opened the database.
MivRaceNext ==
  \/ \E oid \in Oids : MivLookup(1, oid)
  \/ \E v \in Versions : MivQuery(1, v)
  \/ MivStore(1)
  \/ MivReturn(1)
  \/ \E tid \in Tids, oids \in OidSets : StorageChanged(2, tid, oids)
  \/ InvalidateChanged(2)
  \/ InvalidateReturn(2)

SpecMivRace == Init /\ [][MivRaceNext]_vars

\* A thread at self._a() gets the lock.
Granted(t) == OpenGranted(t) \/ CloseGranted(t) \/ ResetAcquire(t)

\* A thread that holds the lock goes on to the release.
Inside(t) ==
  \/ OpenBody(t)
  \/ OpenRelease(t)
  \/ CloseBody(t)
  \/ CloseRelease(t)
  \/ ResetBody(t)
  \/ \E raised \in BOOLEAN : MapBody(t, raised)
  \/ MapRelease(t)

\* What a thread does when its calls can wait for the lock; the
\* connections are of version ''.
LiveCall(t) ==
  \/ \E version \in {""} : OpenCall(t, version)
  \/ \E c \in Conns : CloseCall(t, c)
  \/ Granted(t)
  \/ Inside(t)

\* The calls of the other kinds, made by one thread; the pool is that of
\* version ''.
OtherCall(t) ==
  \/ MapAcquire(t)
  \/ \E version \in {""} : removeVersionPool(t, version)
  \/ \E size \in {1} : setPoolSize(t, size)

LiveNext == (\E t \in Threads : LiveCall(t)) \/ OtherCall(NumThreads)

\* Several threads call the DB.  A thread that holds the lock runs on, and
\* the lock is granted fairly: a thread that waits for it gets it if the
\* lock is free again and again.
SpecLive ==
  /\ Init
  /\ [][LiveNext]_vars
  /\ \A t \in Threads : WF_vars(Inside(t)) /\ SF_vars(Granted(t))

\* ================================================================ claims
\* The pool DB._pools holds for connection c's version (None: no entry).
Registered(c) == pools[conn[c].version]

\* Connection c is in some pool's `available`.
InAvailable(c) == \E p \in PoolIds : c \in Range(heap[p].available)

NoDuplicates(s) == \A i, j \in 1..Len(s) : i # j => s[i] # s[j]

\* ---------------------------------------------------------------- C1
\* C1 as stated: every connection that is checked out (returned by open
\* and not yet closed) is a member of `all` of the pool registered for its
\* version, is not in that pool's `available`, and has the DB as its _db.
C1_InRegisteredPool ==
  \A c \in Conns :
    checkedOut[c] > 0 =>
      /\ Registered(c) # None
      /\ c \in heap[Registered(c)].all
      /\ c \notin Range(heap[Registered(c)].available)
      /\ conn[c].db = "self"

\* C1 amended: every connection that is checked out has the DB as its _db
\* and is in no pool's `available`; it is a member of `all` of the pool
\* registered for its version unless removeVersionPool took its pool out
\* of DB._pools since, and then it is a member of no pool's `all`.
C1_CheckedOut ==
  \A c \in Conns :
    checkedOut[c] > 0 =>
      /\ conn[c].db = "self"
      /\ ~InAvailable(c)
      /\ c \notin orphaned =>
           Registered(c) # None /\ c \in heap[Registered(c)].all
      /\ c \in orphaned => \A p \in PoolIds : c \notin heap[p].all

\* Two connections of one version are checked out, one from the pool that
\* was removed and one from the pool that replaced it.
C1_Witness ==
  \E c, d \in Conns :
    /\ checkedOut[c] > 0 /\ c \in orphaned /\ Registered(c) # None
    /\ checkedOut[d] > 0 /\ d \notin orphaned
    /\ conn[d].version = conn[c].version

\* ---------------------------------------------------------------- C2
\* C2 as stated: when an invalidate call has gone through its pools, every
\* live connection other than the origin, of the call's version unless
\* that is '', has received (tid, oids) exactly once.  (No connection
\* appears or goes while one thread makes the call.)
C2_EveryLiveNotified ==
  \A t \in Threads :
    pc[t] = "inv" /\ local[t].todo = {} =>
      \A c \in Live :
        forwardTo(conn, c, local[t].conn, local[t].version) =>
          local[t].got[c] = <<<<local[t].tid, local[t].oids>>>>

\* ---------------------------------------------------------------- C3
\* The version an invalidate call is to be confined to: the origin
\* connection's when there is one, the version argument otherwise.
EffectiveNamespace(t) ==
  IF local[t].conn # None THEN conn[local[t].conn].version
  ELSE local[t].version

\* C3: an invalidate call whose effective version is not '' delivers to no
\* connection of another version, and no invalidate call delivers to its
\* origin connection.
C3_Confined ==
  \A t \in Threads :
    pc[t] = "inv" =>
      \A c \in Conns :
        local[t].got[c] # <<>> =>
          /\ c # local[t].conn
          /\ EffectiveNamespace(t) # "" =>
               conn[c].version = EffectiveNamespace(t)

\* A call made for a connection of version "v" has gone through the pools:
\* a peer of that version was notified, an open connection of version ''
\* was not.
C3_Witness ==
  \E t \in Threads :
    /\ pc[t] = "inv" /\ local[t].todo = {}
    /\ local[t].conn # None /\ EffectiveNamespace(t) = "v"
    /\ \E c \in Conns : local[t].got[c] # <<>>
    /\ \E d \in Conns :
         /\ conn[d].db = "self" /\ conn[d].version = ""
         /\ d \notin orphaned /\ local[t].got[d] = <<>>

\* ---------------------------------------------------------------- C4
\* C4: a connection that open hands to a caller is held by no caller and
\* has no _db at that moment, so that no connection is held by two callers.
C4_HeldByOne ==
  [][\A c \in Conns :
       checkedOut'[c] > checkedOut[c] =>
         checkedOut[c] = 0 /\ conn[c].db # "self"]_vars

\* open has just handed out a connection that was closed before, while
\* another connection of the same version is held.
C4_Witness ==
  \E t \in Threads :
    /\ pc[t] = "open_r" /\ local[t].outcome = "reused"
    /\ checkedOut[local[t].result] = 1
    /\ \E d \in Conns \ {local[t].result} :
         checkedOut[d] = 1 /\ conn[d].version = local[t].version

\* ---------------------------------------------------------------- C5
\* C5: in every pool, `available` holds no connection twice and only
\* members of `all`.
C5_AvailableWellFormed ==
  \A p \in PoolIds :
    /\ NoDuplicates(heap[p].available)
    /\ Range(heap[p].available) \subseteq heap[p].all

\* A version's pool was removed and the version reopened: its new pool has
\* two idle connections while a connection of the old pool is still open.
C5_Witness ==
  \E v \in Versions :
    /\ pools[v] # None
    /\ Len(heap[pools[v]].available) >= 2
    /\ \E c \in orphaned : conn[c].version = v /\ conn[c].db = "self"

\* ---------------------------------------------------------------- C6
\* C6 as stated: closing a connection whose pool removeVersionPool took
\* out of DB._pools discards it: no error, the connection in no pool's
\* `available`, its references cleared.
C6_OrphanDiscarded ==
  \A t \in Threads :
    pc[t] = "close_r" /\ local[t].conn \in orphaned =>
      /\ local[t].outcome = "discarded"
      /\ ~InAvailable(local[t].conn)
      /\ conn[local[t].conn].db = "cleared"

\* ---------------------------------------------------------------- C7
\* C7: open on a pool with idle connections returns the one of them that
\* was closed last.
C7_LIFO ==
  [][\A t \in Threads :
       (/\ pc[t] = "open" /\ pc'[t] = "open_r"
        /\ heap[local[t].pool].available # <<>>) =>
         /\ closed[local[t].version] # <<>>
         /\ local'[t].result = Last(closed[local[t].version])]_vars

\* open has just returned an idle connection and left an older one idle.
C7_Witness ==
  \E t \in Threads :
    /\ pc[t] = "open_r" /\ local[t].outcome = "reused"
    /\ closed[local[t].version] # <<>>

\* ---------------------------------------------------------------- C8
\* Thread t has just pushed (open, creating a connection) or repushed
\* (close) a connection.
JustPushed(t) ==
  \/ pc[t] = "close_r" /\ local[t].outcome = "repushed"
  \/ pc[t] = "open_r" /\ local[t].outcome = "created"

\* The pool it was pushed to, and the connection.
PushedTo(t) == heap[pools[local[t].version]]

Pushed(t) == IF pc[t] = "close_r" THEN local[t].conn ELSE local[t].result

\* C8 as stated: after push or repush the pool tracks at most pool_size
\* connections, or its `available` was empty when the call was entered.
C8_WithinTargetOrEmpty ==
  \A t \in Threads :
    JustPushed(t) =>
      \/ Cardinality(PushedTo(t).all) <= PushedTo(t).pool_size
      \/ local[t].before = 0

\* C8 amended: after push or repush the pool tracks at most pool_size
\* connections, or every connection that was idle when the call was
\* entered has been thrown away: `available` holds the pushed connection
\* at most.
C8_WithinTargetOrEvicted ==
  \A t \in Threads :
    JustPushed(t) =>
      \/ Cardinality(PushedTo(t).all) <= PushedTo(t).pool_size
      \/ Range(PushedTo(t).available) \subseteq {Pushed(t)}

\* repush found an idle connection, threw it away and still left the pool
\* above its size.
C8_Witness ==
  \E t \in Threads :
    /\ pc[t] = "close_r" /\ local[t].outcome = "repushed"
    /\ local[t].before > 0
    /\ Cardinality(PushedTo(t).all) > PushedTo(t).pool_size

\* ---------------------------------------------------------------- C9
\* Thread t is reading or changing DB._pools or a pool.
InsideAccess(t) ==
  \/ pc[t] \in {"open", "close", "reset"}
  \/ pc[t] = "inv" /\ local[t].todo # {}

\* C9 as stated: a thread that reads or changes DB._pools or a pool holds
\* the DB lock, and no two threads do so at the same time.
C9_UnderLock ==
  /\ \A t \in Threads : InsideAccess(t) => lock = t
  /\ \A t, u \in Threads : InsideAccess(t) /\ InsideAccess(u) => t = u

\* ---------------------------------------------------------------- C10
\* The connections an invalidate call with locals l has delivered to or
\* will deliver to, the pools being hp and the connections cn.
Receivers(l, hp, cn) ==
  {c \in Conns : l.got[c] # <<>>}
    \cup {c \in UNION {hp[p].all : p \in l.todo} :
            forwardTo(cn, c, l.conn, l.version)}

\* C10 as stated: while an invalidate call is going through its pools, no
\* step of an open, a close or a removeVersionPool of another thread adds
\* or removes a receiver.
C10_Atomic ==
  [][\A t \in Threads :
       (/\ pc[t] = "inv" /\ pc'[t] = "inv"
        /\ local'[t].todo = local[t].todo
        /\ \/ pools' # pools
           \/ \E u \in Threads :
                pc[u] \in {"open", "close"} /\ pc'[u] # pc[u]) =>
         Receivers(local'[t], heap', conn') = Receivers(local[t], heap, conn)
    ]_vars

\* ---------------------------------------------------------------- C11
\* C11: between calls a connection's _db is the DB exactly when it is
\* checked out; when _closeConnection returns, the connection's _db is not
\* the DB; every connection on an available stack has _db None; and
\* _closeConnection of a connection whose _db is not the DB raises and
\* changes no pool.
C11_Owner ==
  /\ [](/\ lock = None =>
             \A c \in Conns : (conn[c].db = "self") <=> (checkedOut[c] > 0)
        /\ \A t \in Threads :
             pc[t] = "close_r" => conn[local[t].conn].db # "self"
        /\ \A c \in Conns : InAvailable(c) => conn[c].db = "none")
  /\ [][\A t \in Threads :
          (/\ pc[t] = "close" /\ pc'[t] = "close_r"
           /\ conn[local[t].conn].db # "self") =>
            /\ local'[t].outcome = "AssertionError"
            /\ heap' = heap
            /\ pools' = pools
       ]_vars

\* A second close of a connection that is already back on its pool's stack
\* has raised.
C11_Witness ==
  \E t \in Threads :
    /\ pc[t] = "close_r"
    /\ local[t].outcome = "AssertionError"
    /\ InAvailable(local[t].conn)
    /\ \E c \in Conns : checkedOut[c] > 0 /\ conn[c].db = "self"

\* ---------------------------------------------------------------- C17
\* An invalidate call whose origin connection is of version '' has gone
\* through all the pools.
FromMain(t) ==
  /\ pc[t] = "inv" /\ local[t].todo = {}
  /\ local[t].conn # None
  /\ conn[local[t].conn].version = ""

\* C17 as stated: when a connection open in version '' originates an
\* invalidation, no connection open in version "v" is sent it.
C17_VersionNotCalled ==
  \A t \in Threads :
    FromMain(t) =>
      \A c \in Conns :
        conn[c].db = "self" /\ conn[c].version = "v" =>
          local[t].got[c] = <<>>

\* C17: when a connection open in version '' originates an invalidation,
\* every connection open in version "v" whose pool is still registered is
\* sent it, exactly once, with the tid and oids of the call.
C17_VersionCalled ==
  \A t \in Threads :
    FromMain(t) =>
      \A c \in Conns :
        (/\ conn[c].db = "self" /\ conn[c].version = "v"
         /\ c \notin orphaned) =>
          local[t].got[c] = <<(<<local[t].tid, local[t].oids>>)>>

\* The call of an open connection of version '' has gone through the pools
\* while a connection of version "v" was open, and that one was sent it.
C17_Witness ==
  \E t \in Threads :
    /\ FromMain(t)
    /\ conn[local[t].conn].db = "self"
    /\ \E c \in Conns :
         /\ conn[c].db = "self" /\ conn[c].version = "v"
         /\ c \notin orphaned
         /\ local[t].got[c] # <<>>

\* ---------------------------------------------------------------- C20
\* Pool q is pool p trimmed to n connections: the oldest of its idle
\* connections are gone until n are left or none is idle.
Trimmed(p, q, n) ==
  /\ q.pool_size = n
  /\ q.all \subseteq p.all
  /\ \E k \in 0..Len(p.available) :
       /\ q.available = SubSeq(p.available, k + 1, Len(p.available))
       /\ p.all \ q.all = {p.available[i] : i \in 1..k}
  /\ Cardinality(q.all) <= n \/ q.available = <<>>

\* C20: setPoolSize(n) makes getPoolSize() return n, resizes and trims
\* the pool of version '' only, and leaves the pools of the other versions
\* and the version tunable as they were; setVersionPoolSize likewise with
\* the roles exchanged; a pool created by open takes the tunable of that
\* moment.
C20_SizeFrame ==
  [][\A t \in Threads :
       /\ (pc[t] = "idle" /\ pc'[t] = "reset_wait") =>
            IF local'[t].for_versions
            THEN /\ getVersionPoolSize' = local'[t].size
                 /\ getPoolSize' = getPoolSize
            ELSE /\ getPoolSize' = local'[t].size
                 /\ getVersionPoolSize' = getVersionPoolSize
       /\ (pc[t] = "reset" /\ pc'[t] = "idle") =>
            /\ IF local[t].for_versions
               THEN getVersionPoolSize' = local[t].size
               ELSE getPoolSize' = local[t].size
            /\ UNCHANGED <<pool_size, version_pool_size, pools>>
            /\ \A v \in Versions :
                 pools[v] # None =>
                   IF (v # "") = local[t].for_versions
                   THEN Trimmed(heap[pools[v]], heap'[pools[v]],
                                local[t].size)
                   ELSE heap'[pools[v]] = heap[pools[v]]
       /\ (pc[t] = "idle" /\ pc'[t] = "open") =>
            \A v \in Versions :
              pools[v] = None /\ pools'[v] # None =>
                heap'[pools'[v]].pool_size =
                  IF v # "" THEN getVersionPoolSize ELSE getPoolSize
    ]_vars

\* The pool of version '' has been resized to one connection and holds
\* one, while the pool of version "v" keeps its size of three and its two
\* idle connections.
C20_Witness ==
  /\ \A t \in Threads : pc[t] = "idle"
  /\ pools[""] # None /\ pools["v"] # None
  /\ getPoolSize = 1 /\ getVersionPoolSize = 3
  /\ heap[pools[""]].pool_size = 1
  /\ Cardinality(heap[pools[""]].all) = 1
  /\ heap[pools["v"]].pool_size = 3
  /\ Len(heap[pools["v"]].available) = 2

\* ---------------------------------------------------------------- C16
\* The step is a push onto a pool that tracks exactly pool_size
\* connections.
PushAtTarget ==
  /\ pc[1] = "idle" /\ pc'[1] = "pool_r"
  /\ local'[1].outcome = "pushed"
  /\ Cardinality(heap[ThePool].all) = heap[ThePool].pool_size

\* C16 as stated: a push onto a pool that tracks pool_size connections
\* throws the oldest idle connection away and logs a warning.
C16_EvictsAndWarns ==
  [][PushAtTarget =>
       /\ heap[ThePool].available # <<>> =>
            Head(heap[ThePool].available) \notin heap'[ThePool].all
       /\ local'[1].log \in {"warn", "critical"}
    ]_vars

\* C16: a push onto a pool that tracks pool_size connections throws
\* exactly the oldest idle connection away and logs nothing when a
\* connection is idle, and throws nothing away and logs a warning when
\* none is.
C16_EvictsOrWarns ==
  [][PushAtTarget =>
       LET p == heap[ThePool]
           q == heap'[ThePool]
           c == local'[1].conn
       IN  IF p.available # <<>>
           THEN /\ q.all = (p.all \ {Head(p.available)}) \cup {c}
                /\ q.available = Append(Tail(p.available), c)
                /\ local'[1].log = "none"
           ELSE /\ q.all = p.all \cup {c}
                /\ q.available = <<c>>
                /\ local'[1].log = "warn"
    ]_vars

\* A push has thrown the oldest of two idle connections away: the pool
\* tracks pool_size connections again and nothing was logged.
C16_Witness ==
  /\ pc[1] = "pool_r" /\ local[1].outcome = "pushed"
  /\ local[1].before = 2
  /\ Len(heap[ThePool].available) = 2
  /\ Cardinality(heap[ThePool].all) = heap[ThePool].pool_size
  /\ local[1].log = "none"

\* ---------------------------------------------------------------- C18
\* C18: from the moment invalidate has gone through the cache until it
\* returns, the cache holds no entry of an oid of the call; the entries of
\* the other oids, those that share a bucket with an oid of the call
\* included, are what they were before the call.
C18_CacheFrame ==
  /\ [](\A t \in Threads :
          pc[t] = "inv" =>
            \A h \in DOMAIN miv_cache : miv_cache[h][1] \notin local[t].oids)
  /\ [][\A t \in Threads :
          /\ (pc[t] = "idle" /\ pc'[t] = "inv") =>
               /\ DOMAIN miv_cache' \subseteq DOMAIN miv_cache
               /\ \A h \in DOMAIN miv_cache :
                    miv_cache[h][1] \notin local'[t].oids =>
                      h \in DOMAIN miv_cache' /\ miv_cache'[h] = miv_cache[h]
          /\ pc[t] = "inv" => miv_cache' = miv_cache
       ]_vars

\* An invalidation of oid 1 has gone through the cache: the entry of oid
\* 132, which shares the bucket of oid 1, and the entry of oid 2 are there.
C18_Witness ==
  \E t \in Threads :
    /\ pc[t] = "inv" /\ local[t].oids = {1}
    /\ DOMAIN miv_cache = {1, 2}
    /\ miv_cache[1][1] = 132 /\ miv_cache[2][1] = 2

\* ---------------------------------------------------------------- C19
\* C19: modifiedInVersion returns the version of the cache only when the
\* bucket hash(oid) % 131 holds the entry of that very oid; otherwise it
\* returns the storage's answer and makes (oid, answer) the entry of the
\* bucket, leaving the other buckets alone; the cache has at most 131
\* entries, each in the bucket of its oid.
C19_Lookup ==
  /\ [](/\ DOMAIN miv_cache \subseteq 0..(MivBuckets - 1)
        /\ Cardinality(DOMAIN miv_cache) <= MivBuckets
        /\ \A h \in DOMAIN miv_cache :
             Hash(miv_cache[h][1]) % MivBuckets = h)
  /\ [][\A t \in Threads :
          LET oid == local'[t].oid
              h == Hash(oid) % MivBuckets
          IN  /\ (pc[t] = "idle" /\ pc'[t] = "miv_r") =>
                   /\ h \in DOMAIN miv_cache
                   /\ miv_cache[h] = <<oid, local'[t].answer>>
                   /\ miv_cache' = miv_cache
              /\ (pc[t] = "idle" /\ pc'[t] = "miv_q") =>
                   /\ h \in DOMAIN miv_cache => miv_cache[h][1] # oid
                   /\ miv_cache' = miv_cache
              /\ (pc[t] = "miv_s" /\ pc'[t] = "miv_r") =>
                   /\ local'[t].answer = local[t].answer
                   /\ DOMAIN miv_cache' = DOMAIN miv_cache \cup {h}
                   /\ miv_cache'[h] = <<oid, local'[t].answer>>
                   /\ \A k \in DOMAIN miv_cache \ {h} :
                        miv_cache'[k] = miv_cache[k]
       ]_vars

\* A lookup of oid 1 has asked the storage although the bucket of oid 1
\* was in use, and the bucket holds the entry of oid 1 now.
C19_Witness ==
  \E t \in Threads :
    /\ pc[t] = "miv_r" /\ local[t].outcome = "stored"
    /\ local[t].oid = 1 /\ local[t].answer = "v"
    /\ DOMAIN miv_cache = {1, 2}
    /\ miv_cache[1] = <<1, "v">>

\* ---------------------------------------------------------------- C14
\* The calls __init__ makes on a storage without a root object.
RootCreation ==
  << <<"load", RootOid, "">>, <<"tpc_begin">>, <<"store", RootOid, "">>,
     <<"tpc_vote">>, <<"tpc_finish">> >>

\* C14: when the load of the root object reports it missing, __init__ has
\* made, by the time it returns, the calls tpc_begin, store of the root
\* object in version '', tpc_vote and tpc_finish, in that order and once
\* each, and the storage holds the root object; when the load succeeds,
\* __init__ makes no other call.
C14_RootCreatedOnce ==
  /\ [](\A t \in Threads :
          pc[t] = "boot_r" =>
            IF local[t].outcome = "KeyError"
            THEN /\ local[t].calls = RootCreation
                 /\ storage.root /\ storage.txn = "none"
            ELSE local[t].calls = << <<"load", RootOid, "">> >>)
  /\ [][\A t \in Threads :
          (pc[t] = "new" /\ pc'[t] \in {"boot_begin", "boot_r"}) =>
            (local'[t].outcome = "KeyError") = ~storage.root
       ]_vars

\* __init__ is about to return after it created the root object.
C14_Witness ==
  \E t \in Threads :
    /\ pc[t] = "boot_r" /\ local[t].outcome = "KeyError"
    /\ Len(local[t].calls) = 5
    /\ storage.root

\* ---------------------------------------------------------------- C15
\* C15 as stated: when a call of the root creation that follows tpc_begin
\* raises, __init__ calls tpc_abort on the storage before the exception
\* leaves it, so that the storage has no transaction open.
C15_AbortOnFailure ==
  \A t \in Threads :
    pc[t] = "boot_failed" /\ Len(local[t].calls) > 2 =>
      /\ Last(local[t].calls) = <<"tpc_abort">>
      /\ storage.txn = "none"

\* ---------------------------------------------------------------- C12
\* Connection c was sent the invalidation of thread t's resource manager.
Received(t, c) ==
  /\ local[t].got[c] # <<>>
  /\ \A i \in 1..Len(local[t].got[c]) :
       local[t].got[c][i] = <<local[t].tid, local[t].oids>>

\* C12 as stated: when CommitVersion.commit returns, every live connection
\* was sent (tid, oids) if the destination is ''; otherwise every live
\* connection of the destination and of the source version was sent it and
\* no connection of another version was sent anything.
C12_CommitVersionNotifies ==
  \A t \in Threads :
    (/\ pc[t] = "txn" /\ local[t].outcome = "committed"
     /\ local[t].rm = "CommitVersion") =>
      \A c \in Live :
        IF local[t].dest = "" THEN Received(t, c)
        ELSE IF conn[c].version \in {local[t].dest, local[t].source}
             THEN Received(t, c)
             ELSE local[t].got[c] = <<>>

\* ---------------------------------------------------------------- C13
\* C13: no connection is sent an invalidation of a transaction on which
\* tpc_abort has been called, and the tpc_abort call itself sends none and
\* begins no invalidate call.
C13_NoInvalidationAfterAbort ==
  /\ [](\A t \in Threads :
          pc[t] = "inv" /\ local[t].rm # "" =>
            local[t].tid \notin storage.aborted)
  /\ [][\A t \in Threads :
          /\ \A c \in Conns :
               Len(local'[t].got[c]) > Len(local[t].got[c]) =>
                 Last(local'[t].got[c])[1] \notin storage.aborted
          /\ storage'.aborted # storage.aborted /\ pc[t] = "txn" =>
               /\ pc'[t] = "txn_r"
               /\ local'[t].got = local[t].got
               /\ local'[t].tid \in storage'.aborted
       ]_vars

\* tpc_abort has been called on a CommitVersion whose commit had sent its
\* invalidation to a connection.
C13_Witness ==
  \E t \in Threads :
    /\ pc[t] = "txn_r" /\ local[t].outcome = "aborted"
    /\ local[t].rm = "CommitVersion"
    /\ local[t].tid \in storage.aborted
    /\ \E c \in Conns : local[t].got[c] # <<>>

\* ---------------------------------------------------------------- C21
\* C21: tpc_begin of a resource manager with sub true raises ValueError
\* and makes no call on the storage; with sub false it calls the storage's
\* tpc_begin once, which opens the storage's transaction.
C21_NoSubTransactions ==
  [][\A t \in Threads :
       (/\ pc[t] = "idle" /\ pc'[t] \in {"txn", "txn_r"}
        /\ local'[t].rm # "") =>
         IF local'[t].sub
         THEN /\ pc'[t] = "txn_r"
              /\ local'[t].outcome = "ValueError"
              /\ local'[t].calls = <<>>
              /\ storage' = storage
         ELSE /\ pc'[t] = "txn"
              /\ local'[t].calls = << <<"tpc_begin">> >>
              /\ storage.txn = "none" /\ storage'.txn = "begun"
    ]_vars

\* tpc_begin has raised ValueError for a sub-transaction, and the storage
\* has no transaction open and has begun none.
C21_Witness ==
  \E t \in Threads :
    /\ pc[t] = "txn_r" /\ local[t].outcome = "ValueError"
    /\ local[t].sub /\ local[t].calls = <<>>
    /\ storage.txn = "none" /\ storage.tid = 0

\* ---------------------------------------------------------------- C22
\* Pool r is what _reduce_size makes of pool p when p.pool_size is
\* `target`: only connections from the front of p.available went, they went
\* from `all` too, no connection outside p.available went, and the loop
\* stopped at the first moment at which nothing is idle or fewer than
\* `target` connections are tracked.
TrimOf(p, r, target) ==
  \E k \in 0..Len(p.available) :
    /\ r.available = SubSeq(p.available, k + 1, Len(p.available))
    /\ r.all = p.all \ {p.available[i] : i \in 1..k}
    /\ p.all \ Range(p.available) \subseteq r.all
    /\ r.available = <<>> \/ Cardinality(r.all) < target
    /\ k > 0 => Cardinality(r.all) + 1 >= target

\* The pool as it was between the _reduce_size call of push or repush and
\* the insertion of connection c, q being the pool after the insertion.
BeforeInsert(q, c, pushed) ==
  [pool_size |-> q.pool_size,
   all |-> IF pushed THEN q.all \ {c} ELSE q.all,
   available |-> SubSeq(q.available, 1, Len(q.available) - 1)]

\* C22: the _reduce_size call of push, repush and set_pool_size throws
\* away only the oldest idle connections, takes each of them out of `all`,
\* leaves the connections that are checked out in `all`, and stops exactly
\* when no connection is idle or fewer than pool_size are tracked; with
\* pool_size 1, after c1 and c2 were opened and c1 was closed, the close of
\* c2 leaves c2 idle and alone in `all`.
C22_Trim ==
  [][(pc[1] = "idle" /\ pc'[1] = "pool_r") =>
       LET p == heap[ThePool]
           q == heap'[ThePool]
           c == local'[1].conn
           outcome == local'[1].outcome
       IN  /\ outcome \in {"pushed", "repushed"} =>
                /\ q.available # <<>> /\ Last(q.available) = c
                /\ q.pool_size = p.pool_size
                /\ TrimOf(p, BeforeInsert(q, c, outcome = "pushed"),
                          p.pool_size)
           /\ outcome = "resized" => TrimOf(p, q, q.pool_size + 1)
           /\ (/\ outcome = "repushed" /\ c = 2
               /\ p = [pool_size |-> 1, all |-> {1, 2},
                       available |-> <<1>>]) =>
                q = [pool_size |-> 1, all |-> {2}, available |-> <<2>>]
    ]_vars

\* With pool_size 1 and two connections tracked, the repush of connection
\* 2 has thrown the idle connection 1 away: 2 is idle and alone in `all`.
C22_Witness ==
  /\ pc[1] = "pool_r" /\ local[1].outcome = "repushed"
  /\ local[1].conn = 2 /\ local[1].before = 1
  /\ heap[ThePool] = [pool_size |-> 1, all |-> {2}, available |-> <<2>>]

\* ---------------------------------------------------------------- C23
\* C23 as stated: the invalidation of a resource manager is sent to
\* connections only once the storage's tpc_finish has completed the
\* transaction, so that no connection has been sent the invalidation of a
\* transaction that is aborted at the storage, as it is after tpc_vote
\* raised.
C23_NoneForAborted ==
  \A t \in Threads :
    local[t].rm # "" /\ local[t].tid \in storage.aborted =>
      \A c \in Conns : local[t].got[c] = <<>>

\* ---------------------------------------------------------------- C24
\* C24 as stated: when a modifiedInVersion call for an oid and the
\* invalidation of a change of that oid have both come to their end, the
\* cache does not hold for the oid the version the storage answered before
\* the change.
C24_NoStaleEntry ==
  \A t \in Threads :
    (/\ pc[t] = "miv_r" /\ local[t].stale
     /\ \A u \in Threads \ {t} : pc[u] = "idle") =>
      ~(/\ mivHit(miv_cache, local[t].oid)
        /\ miv_cache[Hash(local[t].oid) % MivBuckets][2] = local[t].answer)

\* ---------------------------------------------------------------- C25
\* The positions at which a thread holds the lock.
Holding == {"open", "open_r", "close", "close_r", "reset", "map", "map_r"}

\* C25: the lock is held by a thread exactly while that thread is inside
\* the locked part of open, _closeConnection, _connectionMap or
\* _reset_pool_sizes, whatever the outcome of the body, so that the lock is
\* free when no such call is in progress; and, the lock being granted
\* fairly, every thread that waits in open or _closeConnection returns.
C25_LockReleased ==
  /\ [](/\ \A t \in Threads : (lock = t) <=> (pc[t] \in Holding)
        /\ (\A t \in Threads : pc[t] \notin Holding) => lock = None)
  /\ [][\A t \in Threads :
          pc[t] \in {"open_r", "close_r", "map_r", "reset"}
            /\ pc'[t] = "idle" => lock' = None
       ]_vars
  /\ \A t \in Threads :
       pc[t] \in {"open_wait", "close_wait"} ~> pc[t] = "idle"

\* A thread waits in open for the lock while the other thread is about to
\* leave _closeConnection with an AssertionError, the lock still in its
\* hands.
C25_Witness ==
  \E t, u \in Threads :
    /\ pc[t] = "open_wait"
    /\ pc[u] = "close_r" /\ local[u].outcome = "AssertionError"
    /\ lock = u

====
